---- MODULE Spec2Model ----
(***************************************************************************)
(* ONEPAI persistent archive subsystem.                                    *)
(*                                                                         *)
(*   Archive         append-only, SHA-256 framed record file               *)
(*                   (onepai/core/archive.py)                              *)
(*   Observation     the record type (onepai/core/observer.py)             *)
(*   TreasureCipher  AES-256-GCM wrapper (onepai/core/treasure_cipher.py)  *)
(*   ArchiveManager  backup, restore, retention and verification of the    *)
(*                   archive directories (scripts/decode_silence.py)       *)
(*                                                                         *)
(* A file is a sequence of bytes, 0 to 255. Python objects are records.     *)
(* One action is one call of a method; the generator returned by           *)
(* iter_records advances by one action per next().                         *)
(***************************************************************************)
EXTENDS Integers, Sequences, FiniteSets, TLC

VARIABLES
    fileExists,   \* the archive path exists on disk
    fileBytes,    \* its content (<<>> while absent)
    constructed,  \* some Archive object for the path has been constructed
    appendErr,    \* exception raised by the last append ("none" if it returned)
    rdState,      \* the iter_records generator: none/created/suspended/done/<exception>
    rdPos,        \* offset of the generator's file handle
    rdOut,        \* the Observations the generator has yielded so far
    rdFrom,       \* history: the offset at which its last read of a frame began
    appended,     \* history: every object passed to append, in call and input order
    written,      \* history: the objects whose frame reached the file
    raced,        \* history: the file changed since the generator was created
    initExists,   \* history: the path existed before the first constructor call
    initBytes,    \* history: the content it had then
    dmgKind,      \* history: external damage done to the file: none/tamper/trunc
    dmgFrame,     \* history: the frame (1-based) the damage lies in, 0 if at a boundary
    dmgOffset,    \* history: the file offset of the damage
    dmgStale,     \* history: an append happened after the damage
    cipherKey,    \* TreasureCipher instances: self.key (NoKey before construction)
    cipherPw,     \* history: the password argument each instance was built with
    blob,         \* an encrypted blob in flight (<<>> before encrypt)
    blobPlain,    \* history: the plaintext it was produced from
    blobBy,       \* history: the instance that produced it (0 before encrypt)
    blobTamper,   \* history: which part of the blob was altered: none/nonce/tag/ct
    decState,     \* last decrypt call: none/returned/ValueError
    decOut,       \* what it returned
    decBy,        \* history: the instance that ran it
    decTamper,    \* history: blobTamper when it ran
    tree,         \* the data root: the file at each path of the archive directories
    out,          \* the backup output directory: the artifact under each name
    bk,           \* history: the create_backup call of the behaviour
    rs,           \* the restore_backup call that has just ended (idle otherwise)
    cl,           \* the clean_archives call that has just ended
    vf,           \* the verify_archives call that has just ended
    wrObjs,       \* per writer: the objects of its running append not yet fully written
    wrOff,        \* per writer: bytes of the first of them that have reached the file
    overlapped,   \* history: an append began while another writer's append was running
    ctorAt,       \* per process: its Archive(path) call: none/init (exists() was false)/done
    disk,         \* the files encrypt_file and decrypt_file work on
    fc,           \* the encrypt_file or decrypt_file call that has just ended
    rdr,          \* per reader process: its own iter_records generator
    ls            \* the list_archives call that has just ended

archiveVars == <<fileExists, fileBytes, constructed, appendErr, rdState, rdPos, rdOut, rdFrom,
                 appended, written, raced, initExists, initBytes,
                 dmgKind, dmgFrame, dmgOffset, dmgStale>>
cipherVars == <<cipherKey, cipherPw, blob, blobPlain, blobBy, blobTamper,
                decState, decOut, decBy, decTamper>>
managerVars == <<tree, out, bk, rs, cl, vf>>
writerVars == <<wrObjs, wrOff, overlapped, ctorAt>>
wrapperVars == <<disk, fc>>
readerVars == <<rdr>>
listVars == <<ls>>
vars == <<archiveVars, cipherVars, managerVars, writerVars, wrapperVars, readerVars, listVars>>

\* What the Archive actions, and the TreasureCipher actions, leave alone.
offArchive == <<cipherVars, managerVars, writerVars, wrapperVars, readerVars, listVars>>
offCipher == <<archiveVars, managerVars, writerVars, wrapperVars, readerVars, listVars>>
offManager == <<archiveVars, cipherVars, writerVars, wrapperVars, readerVars, listVars>>

----------------------------------------------------------------------------
(* Bounds *)

MaxRecords == 2     \* objects passed to append over a whole behaviour
MaxBatch == 2       \* objects passed to one append call
MaxData == 2        \* bytes of a buffer given to encrypt

----------------------------------------------------------------------------
(* Bytes and struct *)

FILE_MAGIC == <<79, 78, 69, 80, 65, 73, 48>>      \* b"ONEPAI0"

HEADER_SIZE == 36                                  \* struct.calcsize(">I32s")

IsPrefix(s, t) == Len(s) <= Len(t) /\ SubSeq(t, 1, Len(s)) = s

\* fh.read(n) at offset pos: at most n bytes, fewer at end of file.
Read(bytes, pos, n) ==
    IF pos >= Len(bytes) THEN <<>>
    ELSE IF n >= Len(bytes) - pos THEN SubSeq(bytes, pos + 1, Len(bytes))
    ELSE SubSeq(bytes, pos + 1, pos + n)

\* struct.pack(">I", n)
PackU32(n) == <<(n \div 16777216) % 256, (n \div 65536) % 256, (n \div 256) % 256, n % 256>>

\* struct.unpack(">I", b). Sizes of 2^31 and more saturate: they exceed every
\* file length, and read() stops at end of file.
UnpackU32(b) ==
    IF b[1] >= 128 THEN 2147483647
    ELSE b[1] * 16777216 + b[2] * 65536 + b[3] * 256 + b[4]

\* hashlib.sha256(p).digest(): 32 bytes, collision-free on the payloads of the
\* model (an injective function of payloads of up to 31 bytes).
Sha256(p) ==
    [i \in 1..32 |->
        IF i = 1 THEN Len(p) % 256
        ELSE IF i - 1 <= Len(p) THEN (p[i - 1] * 7 + i) % 256
        ELSE (i * 13) % 256]

----------------------------------------------------------------------------
(* Observation and its JSON form *)

DateTime(v) == [type |-> "datetime", v |-> v]
Str(v) == [type |-> "str", v |-> v]

\* An object handed to append. hasDict = FALSE is an instance of the
\* Observation dataclass, which is declared with slots=True and so has no
\* __dict__; hasDict = TRUE is any other object with the same four attributes.
Obs(n, ts, d, m, h) == [name |-> n, timestamp |-> ts, data |-> d, meta |-> m, hasDict |-> h]

RecordInputs ==
    { Obs("a", DateTime(1), 1, {}, TRUE),
      Obs("b", DateTime(1), 2, {}, TRUE),
      Obs("c", DateTime(2), 3, {<<"k", 1>>}, TRUE),
      Obs("a", Str(1), 1, {}, TRUE),
      Obs("a", DateTime(1), 1, {}, FALSE) }

\* The four dataclass fields (dataclass equality compares exactly these).
Fields(o) == [name |-> o.name, timestamp |-> o.timestamp, data |-> o.data, meta |-> o.meta]

\* json.dumps(..., default=str): a value JSON cannot represent is replaced by str(value).
DefaultStr(ts) == IF ts.type = "datetime" THEN Str(ts.v) ELSE ts

NameByte(n) == CASE n = "a" -> 97 [] n = "b" -> 98 [] OTHER -> 99

\* json.dumps(obs.__dict__, default=str).encode(): the document, one byte per
\* scalar: name, timestamp, data, then the entries of meta.
JsonDumps(o) ==
    <<NameByte(o.name), 48 + DefaultStr(o.timestamp).v, 48 + o.data>>
    \o (IF o.meta = {} THEN <<>>
        ELSE LET e == CHOOSE e \in o.meta : TRUE IN <<107, 48 + e[2]>>)

JsonValid(p) ==
    /\ Len(p) \in {3, 5}
    /\ p[1] \in 97..99
    /\ p[2] \in 48..57
    /\ p[3] \in 48..57
    /\ Len(p) = 5 => (p[4] = 107 /\ p[5] \in 48..57)

\* Observation(**json.loads(payload)): every JSON string stays a str.
JsonLoads(p) ==
    Obs(CASE p[1] = 97 -> "a" [] p[1] = 98 -> "b" [] OTHER -> "c",
        Str(p[2] - 48),
        p[3] - 48,
        IF Len(p) = 5 THEN {<<"k", p[5] - 48>>} ELSE {},
        FALSE)

\* What reading back a written object gives.
ReadBack(o) == JsonLoads(JsonDumps(o))

----------------------------------------------------------------------------
(* ArchiveManager: the data root and the backup output directory *)

MaxVersions == 2    \* distinct contents a file of the data root takes
MaxAge == 2         \* the clock, in days: modification times are 0..MaxAge

\* self.archives
ArchiveNames == {"treasures", "shadows", "silences", "voids"}

\* datetime.now(), in days
Now == MaxAge

\* A file name is its stem followed by its dot-separated parts:
\* "k.tar.gz" is <<"k", "tar", "gz">>.
\* Path.suffix
Suffix(name) == IF Len(name) > 1 THEN name[Len(name)] ELSE ""

\* Path.with_suffix(s): the last part replaced by the parts of s.
WithSuffix(name, parts) ==
    (IF Len(name) > 1 THEN SubSeq(name, 1, Len(name) - 1) ELSE name) \o parts

\* Path.with_suffix(path.suffix + s): the parts of s added.
AddSuffix(name, parts) == name \o parts

\* A path below the data root: archive directory, subdirectories, file name.
PathOf(arch, dir, name) == [arch |-> arch, dir |-> dir, name |-> name]

JsonPaths == {PathOf("treasures", <<>>, <<"a", "json">>),
              PathOf("shadows", <<"sub">>, <<"b", "json">>)}
KeyPaths == {PathOf("voids", <<>>, <<"k", "key">>),
             PathOf("voids", <<>>, <<"k", "encrypted">>)}
\* A file whose name begins with a dot (Path('.hidden').suffix is '').
HiddenPaths == {PathOf("treasures", <<>>, <<".hidden">>)}
Paths == JsonPaths \cup KeyPaths \cup HiddenPaths

\* A file: what its bytes are (kind, and v to tell contents of a kind apart)
\* and its modification time.
File(kind, v, mtime) == [kind |-> kind, v |-> v, mtime |-> mtime]
Absent == File("absent", 0, 0)

EmptyTree == [p \in Paths |-> Absent]

FilesOf(t, arch) == {p \in Paths : p.arch = arch /\ t[p] # Absent}
AllFiles(t) == {p \in Paths : t[p] # Absent}

\* any(archive_path.iterdir()); every archive directory exists, __init__
\* having created it.
NonEmptyArchives(t) == {a \in ArchiveNames : FilesOf(t, a) # {}}

\* len(list(p.rglob('*'))) summed over the archives: rglob yields the
\* subdirectories as well as the files.
RGlobCount(t) ==
    Cardinality(AllFiles(t)) + Cardinality({<<p.arch, p.dir>> : p \in {q \in AllFiles(t) : q.dir # <<>>}})

\* Artifacts of the output directory.
NoArtifact == [kind |-> "none"]
\* _create_directory_backup: a copy of every archive directory and backup_metadata.json
DirArtifact(t) ==
    [kind |-> "dir", tree |-> t,
     metadata |-> [archives_included |-> ArchiveNames, total_files |-> RGlobCount(t)]]
\* a gzipped tar whose members lie under root ("" is the archive names themselves)
TarArtifact(root, content) == [kind |-> "targz", root |-> root, content |-> content]
TextArtifact(text) == [kind |-> "text", text |-> text]

\* datetime.now().strftime('%Y%m%d_%H%M%S') holds no dot: the name is one part.
BackupName == <<"onepai_backup_T">>
MissingName == <<"no_such_backup">>
ArtifactNames ==
    {BackupName, BackupName \o <<"tar", "gz">>,
     BackupName \o <<"encrypted">>, BackupName \o <<"tar", "gz", "encrypted">>,
     BackupName \o <<"key">>, BackupName \o <<"tar", "key">>, BackupName \o <<"tar", "gz", "key">>,
     BackupName \o <<"temp">>, BackupName \o <<"tar", "gz", "temp">>,
     MissingName}

EmptyOut == [n \in ArtifactNames |-> NoArtifact]

NoCall == [st |-> "none"]

ManagerIdle ==
    /\ tree = EmptyTree
    /\ out = EmptyOut
    /\ bk = NoCall
    /\ rs = NoCall
    /\ cl = NoCall
    /\ vf = NoCall

\* Two processes that open and append to the archive file.
Writers == {1, 2}

WriterIdle ==
    /\ wrObjs = [w \in Writers |-> <<>>]
    /\ wrOff = [w \in Writers |-> 0]
    /\ overlapped = FALSE
    /\ ctorAt = [w \in Writers |-> "none"]

\* The files given to encrypt_file and decrypt_file: t.json, the default
\* destinations the two form from it, and a destination named by the caller.
DiskNames == {<<"t", "json">>, <<"t", "json", "encrypted">>, <<"t", "decrypted">>, <<"d", "bin">>}
NoFile == [bytes |-> <<>>, key |-> -1, plain |-> <<>>, state |-> "absent"]

WrapperIdle ==
    /\ disk = [n \in DiskNames |-> NoFile]
    /\ fc = NoCall

\* Two processes that read the archive file, each with its generator: its
\* state, the offset of its handle, what it has yielded, and (history) the
\* records the file held when it was created.
Readers == {1, 2}
NoReader == [st |-> "none", pos |-> 0, out |-> <<>>, of |-> <<>>]

ReaderIdle == rdr = [r \in Readers |-> NoReader]

ListIdle == ls = NoCall

\* The manager, the writers, the file wrapper and the readers at rest.
RestIdle == ManagerIdle /\ WriterIdle /\ WrapperIdle /\ ReaderIdle /\ ListIdle

----------------------------------------------------------------------------
(* Archive *)

\* Variant: the length field holding the length of the whole frame.
FrameLengthOfFrame(o) ==
    LET payload == JsonDumps(o)
    IN  PackU32(HEADER_SIZE + Len(payload)) \o Sha256(payload) \o payload

\* Archive._write_record: header (length, digest) then payload.
Frame(o) ==
    LET payload == JsonDumps(o)
    IN  PackU32(Len(payload)) \o Sha256(payload) \o payload

\* Variant: the handle opened "wb", which cuts the file before the first write.
RECURSIVE WriteAllOver(_, _, _)
WriteAllOver(bytes, obs, i) ==
    IF i > Len(obs) THEN [bytes |-> bytes, err |-> "none", n |-> i - 1]
    ELSE IF ~obs[i].hasDict THEN [bytes |-> bytes, err |-> "AttributeError", n |-> i - 1]
    ELSE WriteAllOver((IF i = 1 THEN <<>> ELSE bytes) \o Frame(obs[i]), obs, i + 1)

\* Archive.append, the loop over observations on a handle opened "ab":
\* obs.__dict__ raises AttributeError on an object without __dict__; the with
\* block then closes the handle, which keeps the frames written before it.
RECURSIVE WriteAll(_, _, _)
WriteAll(bytes, obs, i) ==
    IF i > Len(obs) THEN [bytes |-> bytes, err |-> "none", n |-> i - 1]
    ELSE IF ~obs[i].hasDict THEN [bytes |-> bytes, err |-> "AttributeError", n |-> i - 1]
    ELSE WriteAll(bytes \o Frame(obs[i]), obs, i + 1)

\* Variant: __init__ without the exists() test.
InitFileAlways(exists) == TRUE

\* Archive.__init__: the header is written only when the path does not exist.
InitFileNeeded(exists) == ~exists

\* Variant: _init_file creates the file and writes nothing.
InitFileEmpty == <<>>

\* Archive._init_file: open "wb" and write the magic.
InitFileBytes == FILE_MAGIC

\* Archive._verify_magic
MagicOk(bytes) == Read(bytes, 0, Len(FILE_MAGIC)) = FILE_MAGIC

\* Variant: the digest comparison left out.
ChecksumSkipped(payload, expected) == TRUE

\* iter_records: hashlib.sha256(payload).digest() != expected_hash
ChecksumOk(payload, expected) == Sha256(payload) = expected

\* iter_records: one pass of the while loop with the handle at offset pos.
\* Gives the generator's next state, the new offset and the record yielded
\* (from: the offset the pass began at).
ReadFrame(bytes, pos) ==
    LET header == Read(bytes, pos, HEADER_SIZE)
        size == UnpackU32(SubSeq(header, 1, 4))
        expected == SubSeq(header, 5, 36)
        payload == Read(bytes, pos + HEADER_SIZE, size)
        after == pos + HEADER_SIZE + Len(payload)
    IN  IF header = <<>>
            THEN [st |-> "done", pos |-> pos, out |-> <<>>, from |-> pos]
        ELSE IF Len(header) < HEADER_SIZE
            THEN [st |-> "struct.error", pos |-> pos + Len(header), out |-> <<>>, from |-> pos]
        ELSE IF ~ChecksumOk(payload, expected)
            THEN [st |-> "IOError:checksum", pos |-> after, out |-> <<>>, from |-> pos]
        ELSE IF ~JsonValid(payload)
            THEN [st |-> "JSONDecodeError", pos |-> after, out |-> <<>>, from |-> pos]
        ELSE [st |-> "suspended", pos |-> after, out |-> <<JsonLoads(payload)>>, from |-> pos]

\* iter_records up to its first yield: open "rb", _verify_magic, first frame.
ReadFirst(exists, bytes) ==
    LET magic == Read(bytes, 0, Len(FILE_MAGIC))
    IN  IF ~exists
            THEN [st |-> "FileNotFoundError", pos |-> 0, out |-> <<>>, from |-> 0]
        ELSE IF ~MagicOk(bytes)
            THEN [st |-> "IOError:magic", pos |-> Len(magic), out |-> <<>>, from |-> 0]
        ELSE ReadFrame(bytes, Len(magic))

RdLive == {"created", "suspended"}
RdFinished == {"done", "struct.error", "IOError:checksum", "IOError:magic",
               "JSONDecodeError", "FileNotFoundError"}

\* Files that may already be at the path: a header-only archive, an archive
\* holding one record, and files that are not archives.
PreExisting == Obs("b", DateTime(1), 2, {}, TRUE)
ValidInitialFiles == {FILE_MAGIC, FILE_MAGIC \o Frame(PreExisting)}
ForeignInitialFiles == {<<>>, <<79, 78, 69>>, <<79, 78, 69, 80, 65, 73, 49>>,
                        <<88, 78, 69, 80, 65, 73, 48, 0, 0>>}

CipherIds == {1, 2}      \* two TreasureCipher instances
NoKey == -1              \* self.key of an instance not yet constructed
Unbuilt == <<-2>>        \* no constructor call yet
None == <<-1>>           \* the password argument None

CipherIdle ==
    /\ cipherKey = [i \in CipherIds |-> NoKey]
    /\ cipherPw = [i \in CipherIds |-> Unbuilt]
    /\ blob = <<>>
    /\ blobPlain = <<>>
    /\ blobBy = 0
    /\ blobTamper = "none"
    /\ decState = "none"
    /\ decOut = <<>>
    /\ decBy = 0
    /\ decTamper = "none"

ArchiveInit ==
    /\ \/ fileExists = FALSE /\ fileBytes = <<>>
       \/ fileExists = TRUE /\ fileBytes \in ForeignInitialFiles \cup ValidInitialFiles
    /\ written = (IF Len(fileBytes) > Len(FILE_MAGIC) /\ MagicOk(fileBytes)
                  THEN <<PreExisting>> ELSE <<>>)
    /\ initExists = fileExists
    /\ initBytes = fileBytes
    /\ constructed = FALSE
    /\ appendErr = "none"
    /\ rdState = "none"
    /\ rdPos = 0
    /\ rdOut = <<>>
    /\ rdFrom = 0
    /\ appended = <<>>
    /\ raced = FALSE
    /\ dmgKind = "none"
    /\ dmgFrame = 0
    /\ dmgOffset = 0
    /\ dmgStale = FALSE

Init == ArchiveInit /\ CipherIdle /\ RestIdle

\* Archive(path)
Construct ==
    /\ IF InitFileNeeded(fileExists)
       THEN fileExists' = TRUE /\ fileBytes' = InitFileBytes
       ELSE UNCHANGED <<fileExists, fileBytes>>
    /\ constructed' = TRUE
    /\ raced' = (raced \/ (rdState # "none" /\ fileBytes' # fileBytes))
    /\ UNCHANGED <<appendErr, rdState, rdPos, rdOut, rdFrom, appended, written,
                   initExists, initBytes, dmgKind, dmgFrame, dmgOffset, dmgStale>>
    /\ UNCHANGED offArchive

Batches(inputs, room) ==
    UNION {[1..n -> inputs] : n \in 0..(IF room < MaxBatch THEN room ELSE MaxBatch)}

\* archive.append(observations) with the objects drawn from inputs; writers
\* are serialized: the call runs to its end.
AppendFrom(inputs) ==
    /\ constructed
    /\ \E obs \in Batches(inputs, MaxRecords - Len(appended)) :
        LET r == WriteAll(fileBytes, obs, 1)
        IN  /\ fileExists' = TRUE
            /\ fileBytes' = r.bytes
            /\ appendErr' = r.err
            /\ appended' = appended \o obs
            /\ written' = written \o SubSeq(obs, 1, r.n)
            /\ raced' = (raced \/ (rdState # "none" /\ r.n > 0))
            /\ dmgStale' = (dmgStale \/ (dmgKind # "none" /\ r.n > 0))
    /\ UNCHANGED <<constructed, rdState, rdPos, rdOut, rdFrom, initExists, initBytes,
                   dmgKind, dmgFrame, dmgOffset>>
    /\ UNCHANGED offArchive

\* archive.iter_records(): creates the generator; nothing runs before next().
IterRecords ==
    /\ constructed
    /\ rdState' = "created"
    /\ rdPos' = 0
    /\ rdOut' = <<>>
    /\ rdFrom' = 0
    /\ raced' = FALSE
    /\ UNCHANGED <<fileExists, fileBytes, constructed, appendErr, appended, written,
                   initExists, initBytes, dmgKind, dmgFrame, dmgOffset, dmgStale>>
    /\ UNCHANGED offArchive

\* next() on the generator: runs to the next yield, to the return or to an exception.
ReaderNext ==
    /\ rdState \in RdLive
    /\ LET r == IF rdState = "created" THEN ReadFirst(fileExists, fileBytes)
                ELSE ReadFrame(fileBytes, rdPos)
       IN  /\ rdState' = r.st
           /\ rdPos' = r.pos
           /\ rdOut' = rdOut \o r.out
           /\ rdFrom' = r.from
    /\ UNCHANGED <<fileExists, fileBytes, constructed, appendErr, appended, written, raced,
                   initExists, initBytes, dmgKind, dmgFrame, dmgOffset, dmgStale>>
    /\ UNCHANGED offArchive


ArchiveAppend == AppendFrom(RecordInputs)

Next == Construct \/ ArchiveAppend \/ IterRecords \/ ReaderNext

Spec == Init /\ [][Next]_vars

----------------------------------------------------------------------------
(* External damage to a valid archive file *)

RECURSIVE Frames(_)
Frames(objs) == IF objs = <<>> THEN <<>> ELSE Frame(Head(objs)) \o Frames(Tail(objs))

\* The file the writer produces for the objects in objs.
ArchiveBytes(objs) == FILE_MAGIC \o Frames(objs)

\* Offset at which frame k begins (k = Len(objs) + 1: the end of the file).
FrameStart(objs, k) == Len(ArchiveBytes(SubSeq(objs, 1, k - 1)))

\* A changed byte: one bit flipped (the lowest, or the highest).
Flips(b) == {IF b % 2 = 0 THEN b + 1 ELSE b - 1, (b + 128) % 256}

\* Somebody overwrites one payload byte of frame k.
TamperPayload ==
    /\ fileExists /\ constructed
    /\ rdState = "none"
    /\ dmgKind = "none"
    /\ fileBytes = ArchiveBytes(written)
    /\ \E k \in 1..Len(written) :
        \E j \in 1..Len(JsonDumps(written[k])) :
            LET off == FrameStart(written, k) + HEADER_SIZE + j
            IN  \E b \in Flips(fileBytes[off]) :
                /\ fileBytes' = [fileBytes EXCEPT ![off] = b]
                /\ dmgFrame' = k
                /\ dmgOffset' = off - 1
    /\ dmgKind' = "tamper"
    /\ UNCHANGED <<fileExists, constructed, raced, appendErr, rdState, rdPos, rdOut, rdFrom,
                   appended, written, initExists, initBytes, dmgStale>>
    /\ UNCHANGED offArchive

\* The frame an offset lies strictly inside, 0 if it is a frame boundary.
FrameOf(objs, off) ==
    IF \E k \in 1..Len(objs) : FrameStart(objs, k) < off /\ off < FrameStart(objs, k + 1)
    THEN CHOOSE k \in 1..Len(objs) : FrameStart(objs, k) < off /\ off < FrameStart(objs, k + 1)
    ELSE 0

\* The file is cut at offset n, at or after the end of the magic.
Truncate ==
    /\ fileExists /\ constructed
    /\ rdState = "none"
    /\ dmgKind = "none"
    /\ fileBytes = ArchiveBytes(written)
    /\ \E n \in Len(FILE_MAGIC)..(Len(fileBytes) - 1) :
        /\ fileBytes' = SubSeq(fileBytes, 1, n)
        /\ dmgFrame' = FrameOf(written, n)
        /\ dmgOffset' = n
    /\ dmgKind' = "trunc"
    /\ UNCHANGED <<fileExists, constructed, raced, appendErr, rdState, rdPos, rdOut, rdFrom,
                   appended, written, initExists, initBytes, dmgStale>>
    /\ UNCHANGED offArchive

\* The objects append can write.
WritableInputs == {o \in RecordInputs : o.hasDict /\ o.timestamp.type = "datetime"}

AppendWritable == AppendFrom(WritableInputs)

InitTamper == Init /\ (fileExists => MagicOk(fileBytes))

NextTamper ==
    Construct \/ AppendWritable \/ IterRecords \/ ReaderNext \/ TamperPayload \/ Truncate

SpecTamper == InitTamper /\ [][NextTamper]_vars

----------------------------------------------------------------------------
(* TreasureCipher *)

\* Password strings, as their UTF-8 bytes: "", "x", "y", "x\0", "\0", "xy".
Passwords == {<<>>, <<120>>, <<121>>, <<120, 0>>, <<0>>, <<120, 121>>}

\* HMAC's key preparation: a key shorter than the 64-byte block of SHA-256 is
\* padded with zero bytes.
HmacKey(pw) == [i \in 1..64 |-> IF i <= Len(pw) THEN pw[i] ELSE 0]

\* The prepared key read as a little-endian number (the zero padding adds nothing).
RECURSIVE BlockValue(_, _)
BlockValue(block, i) ==
    IF \A j \in i..Len(block) : block[j] = 0 THEN 0
    ELSE block[i] + 256 * BlockValue(block, i + 1)

\* hashlib.pbkdf2_hmac('sha256', password, salt, 100000, 32): the password
\* enters only as the HMAC key; the result is collision-free on prepared keys.
\* Keys are numbered; derived keys are 100000 and up.
Pbkdf2Hmac(pw) == 100000 + BlockValue(HmacKey(pw), 1)

\* secrets.token_bytes(32)
RandomKeys == {3, 4}

\* `if password:` in __init__: None and the empty string are falsy.
Truthy(pw) == pw # None /\ pw # <<>>

\* get_random_bytes(12)
Nonces == {[i \in 1..12 |-> 0], [i \in 1..12 |-> IF i = 1 THEN 1 ELSE 0]}

Plaintexts == UNION {[1..n -> {65}] : n \in 0..MaxData}

RECURSIVE NonceValue(_, _)
NonceValue(nonce, i) ==
    IF i > Len(nonce) THEN 0 ELSE (nonce[i] % 2) + 2 * NonceValue(nonce, i + 1)

\* AES-GCM in counter mode: byte i of the key stream for (key, nonce).
KeyStream(key, nonce, i) == (key * 31 + NonceValue(nonce, 1) * 17 + i * 5) % 256

GcmCrypt(key, nonce, data) ==
    [i \in 1..Len(data) |-> (data[i] + KeyStream(key, nonce, i)) % 256]

GcmUncrypt(key, nonce, ct) ==
    [i \in 1..Len(ct) |-> (ct[i] + 256 - KeyStream(key, nonce, i)) % 256]

\* The 16-byte GCM tag is unforgeable: here an injective function of (key,
\* nonce, ciphertext) on the values of the model (nonce bytes 0 or 1,
\* ciphertexts of up to 9 bytes) whose values differ in at least two bytes,
\* so that no change of one byte turns one tag into another.
TagBody(key, nonce, ct) ==
    [i \in 1..15 |->
        CASE i = 1 -> (key \div 65536) % 256
          [] i = 2 -> (key \div 256) % 256
          [] i = 3 -> key % 256
          [] i = 4 -> NonceValue(nonce, 1) \div 256
          [] i = 5 -> NonceValue(nonce, 1) % 256
          [] i = 6 -> Len(ct) % 256
          [] OTHER -> IF i - 6 <= Len(ct) THEN ct[i - 6] ELSE 0]

RECURSIVE ByteSum(_, _)
ByteSum(bytes, i) == IF i > Len(bytes) THEN 0 ELSE (bytes[i] + ByteSum(bytes, i + 1)) % 256

GcmTag(key, nonce, ct) ==
    LET body == TagBody(key, nonce, ct) IN body \o <<ByteSum(body, 1)>>

\* Variant: cipher.decrypt(ciphertext), the tag never checked.
GcmVerifySkipped(key, nonce, ct, tag) == TRUE

\* cipher.decrypt_and_verify(ciphertext, tag): the tag check.
GcmVerify(key, nonce, ct, tag) == GcmTag(key, nonce, ct) = tag

\* TreasureCipher.encrypt with the nonce drawn: nonce + tag + ciphertext.
EncryptWith(key, nonce, data) ==
    LET ct == GcmCrypt(key, nonce, data)
    IN  nonce \o GcmTag(key, nonce, ct) \o ct

\* Variant: the length check written <= 28.
DecryptOffByOne(key, data) ==
    LET nonce == SubSeq(data, 1, 12)
        tag == SubSeq(data, 13, 28)
        ct == SubSeq(data, 29, Len(data))
    IN  IF Len(data) <= 28 THEN [st |-> "ValueError", out |-> <<>>]
        ELSE IF ~GcmVerify(key, nonce, ct, tag) THEN [st |-> "ValueError", out |-> <<>>]
        ELSE [st |-> "returned", out |-> GcmUncrypt(key, nonce, ct)]

\* TreasureCipher.decrypt: both the length check and a failed tag check raise
\* ValueError (re-raised by the except clause).
DecryptWith(key, data) ==
    LET nonce == SubSeq(data, 1, 12)
        tag == SubSeq(data, 13, 28)
        ct == SubSeq(data, 29, Len(data))
    IN  IF Len(data) < 28 THEN [st |-> "ValueError", out |-> <<>>]
        ELSE IF ~GcmVerify(key, nonce, ct, tag) THEN [st |-> "ValueError", out |-> <<>>]
        ELSE [st |-> "returned", out |-> GcmUncrypt(key, nonce, ct)]

\* TreasureCipher(password)
NewCipher(c) ==
    /\ cipherKey[c] = NoKey
    /\ \E pw \in Passwords \cup {None} :
        /\ cipherPw' = [cipherPw EXCEPT ![c] = pw]
        /\ IF Truthy(pw)
           THEN cipherKey' = [cipherKey EXCEPT ![c] = Pbkdf2Hmac(pw)]
           ELSE \E k \in RandomKeys : cipherKey' = [cipherKey EXCEPT ![c] = k]
    /\ UNCHANGED <<blob, blobPlain, blobBy, blobTamper, decState, decOut, decBy, decTamper>>
    /\ UNCHANGED offCipher

\* cipher.encrypt(data)
Encrypt(c) ==
    /\ cipherKey[c] # NoKey
    /\ blobBy = 0
    /\ \E data \in Plaintexts, nonce \in Nonces :
        /\ blob' = EncryptWith(cipherKey[c], nonce, data)
        /\ blobPlain' = data
    /\ blobBy' = c
    /\ UNCHANGED <<cipherKey, cipherPw, blobTamper, decState, decOut, decBy, decTamper>>
    /\ UNCHANGED offCipher

BlobPart(pos) == IF pos <= 12 THEN "nonce" ELSE IF pos <= 28 THEN "tag" ELSE "ct"

\* Somebody flips the lowest bit of one byte of the blob.
TamperBlob ==
    /\ blobBy # 0
    /\ blobTamper = "none"
    /\ \E pos \in 1..Len(blob) :
        /\ blob' = [blob EXCEPT ![pos] = IF @ % 2 = 0 THEN @ + 1 ELSE @ - 1]
        /\ blobTamper' = BlobPart(pos)
    /\ UNCHANGED <<cipherKey, cipherPw, blobPlain, blobBy, decState, decOut, decBy, decTamper>>
    /\ UNCHANGED offCipher

\* cipher.decrypt(blob)
Decrypt(c) ==
    /\ cipherKey[c] # NoKey
    /\ blobBy # 0
    /\ LET r == DecryptWith(cipherKey[c], blob)
       IN  decState' = r.st /\ decOut' = r.out
    /\ decBy' = c
    /\ decTamper' = blobTamper
    /\ UNCHANGED <<cipherKey, cipherPw, blob, blobPlain, blobBy, blobTamper>>
    /\ UNCHANGED offCipher

ArchiveIdle ==
    /\ fileExists = FALSE /\ fileBytes = <<>> /\ written = <<>>
    /\ initExists = FALSE /\ initBytes = <<>>
    /\ constructed = FALSE /\ appendErr = "none"
    /\ rdState = "none" /\ rdPos = 0 /\ rdOut = <<>> /\ rdFrom = 0
    /\ appended = <<>> /\ raced = FALSE
    /\ dmgKind = "none" /\ dmgFrame = 0 /\ dmgOffset = 0 /\ dmgStale = FALSE

InitCipher == ArchiveIdle /\ CipherIdle /\ RestIdle

NextCipher ==
    \/ \E c \in CipherIds : NewCipher(c)
    \/ \E c \in CipherIds : Encrypt(c)
    \/ TamperBlob
    \/ \E c \in CipherIds : Decrypt(c)

SpecCipher == InitCipher /\ [][NextCipher]_vars

\* Somebody cuts the blob short.
CutBlob ==
    /\ blobBy # 0
    /\ blobTamper = "none"
    /\ \E n \in 0..(Len(blob) - 1) : blob' = SubSeq(blob, 1, n)
    /\ blobTamper' = "cut"
    /\ UNCHANGED <<cipherKey, cipherPw, blobPlain, blobBy, decState, decOut, decBy, decTamper>>
    /\ UNCHANGED offCipher

NextBlob ==
    \/ \E c \in CipherIds : NewCipher(c)
    \/ \E c \in CipherIds : Encrypt(c)
    \/ CutBlob
    \/ \E c \in CipherIds : Decrypt(c)

SpecBlob == InitCipher /\ [][NextBlob]_vars

----------------------------------------------------------------------------
(* TreasureCipher.encrypt_file and decrypt_file *)

\* A file: its bytes and, as history, the key and the buffer an encrypted
\* file was made from and whether it is plain, sealed (as encrypt left it) or
\* tampered.
DiskFile(bytes, key, plain, state) ==
    [bytes |-> bytes, key |-> key, plain |-> plain, state |-> state]

\* encrypt_file: dst_path, by default src_path.with_suffix(src_path.suffix + '.encrypted')
EncryptedPath(src, dst) == IF dst = None THEN AddSuffix(src, <<"encrypted">>) ELSE dst

\* decrypt_file: dst_path, by default the source without its '.encrypted',
\* or with '.decrypted' in place of another suffix.
DecryptedPath(src, dst) ==
    IF dst # None THEN dst
    ELSE IF Suffix(src) = "encrypted" THEN WithSuffix(src, <<>>)
    ELSE WithSuffix(src, <<"decrypted">>)

\* The destinations a caller names: none, a path of its own, the source itself.
Destinations(src) == {None, <<"d", "bin">>, src}

\* Somebody saves a buffer as t.json.
SaveSource ==
    /\ disk[<<"t", "json">>] = NoFile
    /\ \E data \in Plaintexts :
        disk' = [disk EXCEPT ![<<"t", "json">>] = DiskFile(data, NoKey, data, "plain")]
    /\ fc' = NoCall
    /\ UNCHANGED <<archiveVars, cipherVars, managerVars, writerVars, readerVars, listVars>>

\* cipher.encrypt_file(src_path, dst_path), called while the source is the
\* only file there is.
EncryptFile(c) ==
    /\ cipherKey[c] # NoKey
    /\ \E src \in DiskNames :
        \E dst \in Destinations(src), nonce \in Nonces :
            LET path == EncryptedPath(src, dst)
                data == disk[src].bytes
            IN  /\ path \in DiskNames
                /\ \A n \in DiskNames \ {src} : disk[n] = NoFile
                /\ disk[src] # NoFile => disk[src].state = "plain"
                /\ IF disk[src] = NoFile
                   THEN /\ disk' = disk
                        /\ fc' = [op |-> "encrypt_file", st |-> "FileNotFoundError", by |-> c,
                                  src |-> src, dst |-> dst, path |-> path, pre |-> disk]
                   ELSE /\ disk' = [disk EXCEPT ![path] =
                                       DiskFile(EncryptWith(cipherKey[c], nonce, data),
                                                cipherKey[c], data, "sealed")]
                        /\ fc' = [op |-> "encrypt_file", st |-> "returned", by |-> c,
                                  src |-> src, dst |-> dst, path |-> path, pre |-> disk]
    /\ UNCHANGED <<archiveVars, cipherVars, managerVars, writerVars, readerVars, listVars>>

\* Somebody alters an encrypted file: one bit of the nonce, of the tag or of
\* the ciphertext, or its end cut off.
TamperFile ==
    /\ \E name \in DiskNames :
        /\ disk[name].state = "sealed"
        /\ \/ \E pos \in {1, 13, 29} :
                /\ pos <= Len(disk[name].bytes)
                /\ disk' = [disk EXCEPT ![name].bytes[pos] = IF @ % 2 = 0 THEN @ + 1 ELSE @ - 1,
                                        ![name].state = "tampered"]
           \/ disk' = [disk EXCEPT ![name].bytes = SubSeq(@, 1, Len(@) - 1),
                                   ![name].state = "tampered"]
    /\ fc' = NoCall
    /\ UNCHANGED <<archiveVars, cipherVars, managerVars, writerVars, readerVars, listVars>>

\* Variant: the destination opened for writing before decrypt is called.
DestinationWrittenEarly(st) == st # "FileNotFoundError"

\* decrypt_file: dst_path.write_bytes(data) follows self.decrypt, and is not
\* reached when that raises.
DestinationWritten(st) == st = "returned"

\* cipher.decrypt_file(src_path, dst_path)
DecryptFile(c) ==
    /\ cipherKey[c] # NoKey
    /\ \E src \in DiskNames :
        \E dst \in Destinations(src) :
            LET path == DecryptedPath(src, dst)
                r == DecryptWith(cipherKey[c], disk[src].bytes)
                st == IF disk[src] = NoFile THEN "FileNotFoundError" ELSE r.st
            IN  /\ path \in DiskNames
                /\ disk' = IF DestinationWritten(st)
                           THEN [disk EXCEPT ![path] = DiskFile(r.out, NoKey, r.out, "plain")]
                           ELSE disk
                /\ fc' = [op |-> "decrypt_file", st |-> st, by |-> c,
                          src |-> src, dst |-> dst, path |-> path, pre |-> disk]
    /\ UNCHANGED <<archiveVars, cipherVars, managerVars, writerVars, readerVars, listVars>>

\* Two instances built with the passwords "x" and "y".
CiphersBuilt ==
    /\ cipherPw = [i \in CipherIds |-> IF i = 1 THEN <<120>> ELSE <<121>>]
    /\ cipherKey = [i \in CipherIds |-> Pbkdf2Hmac(cipherPw[i])]
    /\ blob = <<>> /\ blobPlain = <<>> /\ blobBy = 0 /\ blobTamper = "none"
    /\ decState = "none" /\ decOut = <<>> /\ decBy = 0 /\ decTamper = "none"

InitWrapper == ArchiveIdle /\ CiphersBuilt /\ RestIdle

NextWrapper ==
    \/ SaveSource
    \/ \E c \in CipherIds : EncryptFile(c)
    \/ TamperFile
    \/ \E c \in CipherIds : DecryptFile(c)

SpecWrapper == InitWrapper /\ [][NextWrapper]_vars

----------------------------------------------------------------------------
(* ArchiveManager *)

\* CryptoManager: one key at a time; a blob opens under the key that made it.
DeriveKeyFromPassword(pw) == Pbkdf2Hmac(pw)
GenerateKey == RandomKeys
EncryptData(key, data) == [kind |-> "blob", key |-> key, data |-> data]
DecryptData(key, token) ==
    IF token.kind = "blob" /\ token.key = key
    THEN [st |-> "returned", out |-> token.data]
    ELSE [st |-> "AuthenticationError", out |-> NoArtifact]

\* f"auto_generated_{timestamp}", as bytes ("auto")
AutoPassword == <<97, 117, 116, 111>>

\* str.strip(): leading and trailing blanks removed.
RECURSIVE LStrip(_)
LStrip(s) == IF s # <<>> /\ Head(s) = 32 THEN LStrip(Tail(s)) ELSE s
RECURSIVE RStrip(_)
RStrip(s) == IF s # <<>> /\ s[Len(s)] = 32 THEN RStrip(SubSeq(s, 1, Len(s) - 1)) ELSE s
Strip(s) == RStrip(LStrip(s))

\* The passwords given to create_backup (None, "x") and to restore_backup
\* (None, "x", "y").
BackupPasswords == {None, <<120>>}
RestorePasswords == {None, <<120>>, <<121>>}

\* _encrypt_backup(backup_file, password) with the key generate_key() would
\* draw: the encrypted file, the password file, and (in create_backup) the
\* plain artifact removed.
EncryptBackup(o, name, password, randomKey) ==
    LET key == IF Truthy(password) THEN DeriveKeyFromPassword(password) ELSE randomKey
        pw == IF Truthy(password) THEN password ELSE AutoPassword
        data == IF o[name].kind = "dir" THEN TarArtifact(name[1], o[name]) ELSE o[name]
        encrypted_file == AddSuffix(name, <<"encrypted">>)
        password_file == WithSuffix(name, <<"key">>)
    IN  [path |-> encrypted_file,
         key |-> key,
         out |-> [o EXCEPT ![encrypted_file] = EncryptData(key, data),
                           ![password_file] = TextArtifact(pw),
                           ![name] = NoArtifact]]

\* manager.create_backup(output_dir, compress, encrypt, password)
CreateBackup ==
    /\ bk = NoCall
    /\ \E compress \in BOOLEAN, encrypt \in BOOLEAN, password \in BackupPasswords,
          randomKey \in GenerateKey :
        LET name == IF compress THEN BackupName \o <<"tar", "gz">> ELSE BackupName
            plain == [out EXCEPT ![name] = IF compress THEN TarArtifact("", tree)
                                           ELSE DirArtifact(tree)]
            e == EncryptBackup(plain, name, password, randomKey)
        IN  /\ out' = IF encrypt THEN e.out ELSE plain
            /\ bk' = [st |-> "returned", compress |-> compress, encrypt |-> encrypt,
                      password |-> password, snapshot |-> tree,
                      path |-> IF encrypt THEN e.path ELSE name,
                      key |-> IF encrypt THEN e.key ELSE NoKey]
    /\ rs' = NoCall /\ cl' = NoCall /\ vf' = NoCall
    /\ UNCHANGED tree
    /\ UNCHANGED offManager

\* _decrypt_backup(encrypted_file, password)
DecryptBackup(o, encrypted_file, password) ==
    LET key_file == WithSuffix(encrypted_file, <<"key">>)
        found == o[key_file].kind = "text"
        pw == IF Truthy(password) THEN password
              ELSE IF found THEN Strip(o[key_file].text) ELSE <<>>
        r == DecryptData(DeriveKeyFromPassword(pw), o[encrypted_file])
        temp_file == WithSuffix(encrypted_file, <<"temp">>)
    IN  IF ~Truthy(password) /\ ~found
            THEN [st |-> "ValueError:password", name |-> encrypted_file, out |-> o]
        ELSE IF r.st # "returned"
            THEN [st |-> r.st, name |-> encrypted_file, out |-> o]
        ELSE [st |-> "returned", name |-> temp_file, out |-> [o EXCEPT ![temp_file] = r.out]]

\* _restore_compressed_backup: tar.extractall(self.data_dir) writes the
\* members over the files there and touches no other file; members under
\* another root land beside the archive directories.
RestoreCompressed(t, art) ==
    IF art.kind # "targz" THEN [st |-> "ReadError", tree |-> t]
    ELSE IF art.root # "" THEN [st |-> "returned", tree |-> t]
    ELSE [st |-> "returned",
          tree |-> [p \in Paths |-> IF art.content[p] # Absent THEN art.content[p] ELSE t[p]]]

\* _restore_directory_backup: every archive directory found in the backup
\* replaces the one of the data root; backup_dir / name exists for no name
\* when backup_dir is a file.
RestoreDirectory(t, art) ==
    IF art.kind = "dir" THEN [st |-> "returned", tree |-> art.tree]
    ELSE [st |-> "returned", tree |-> t]

\* restore_backup: backup_file.suffix in ['.tar', '.gz'] or name.endswith('.tar.gz')
IsCompressedName(name) == Suffix(name) \in {"tar", "gz"}

\* Variant: the existing-data test left out.
ConflictsNone(t, force) == {}

\* restore_backup: the archive directories that hold data, unless force.
Conflicts(t, force) == IF force THEN {} ELSE NonEmptyArchives(t)

\* manager.restore_backup(backup_path, password, force): True, False or the
\* exception, with the data root and the output directory it leaves.
RestoreResult(t, o, path, password, force) ==
    LET d == IF Suffix(path) = "encrypted" THEN DecryptBackup(o, path, password)
             ELSE [st |-> "returned", name |-> path, out |-> o]
        r == IF IsCompressedName(d.name) THEN RestoreCompressed(t, d.out[d.name])
             ELSE RestoreDirectory(t, d.out[d.name])
    IN  IF o[path] = NoArtifact
            THEN [st |-> "FileNotFoundError", tree |-> t, out |-> o]
        ELSE IF Conflicts(t, force) # {}
            THEN [st |-> "False", tree |-> t, out |-> o]
        ELSE IF d.st # "returned"
            THEN [st |-> d.st, tree |-> t, out |-> o]
        ELSE IF r.st # "returned"
            THEN [st |-> r.st, tree |-> t, out |-> d.out]
        ELSE [st |-> "True", tree |-> r.tree, out |-> d.out]

RestoreBackup ==
    /\ \E path \in {n \in ArtifactNames : out[n] # NoArtifact} \cup {MissingName},
          password \in RestorePasswords, force \in BOOLEAN :
        LET r == RestoreResult(tree, out, path, password, force)
        IN  /\ tree' = r.tree
            /\ out' = r.out
            /\ rs' = [st |-> r.st, path |-> path, password |-> password, force |-> force,
                      pre |-> tree, preOut |-> out]
    /\ cl' = NoCall /\ vf' = NoCall
    /\ UNCHANGED bk
    /\ UNCHANGED offManager

\* Somebody saves a file below the data root (new, or over the old one).
SaveFile(paths, kinds, mtimes) ==
    /\ \E p \in paths, k \in kinds, v \in 1..MaxVersions, m \in mtimes :
        /\ tree[p] # File(k, v, m)
        /\ tree' = [tree EXCEPT ![p] = File(k, v, m)]
    /\ rs' = NoCall /\ cl' = NoCall /\ vf' = NoCall
    /\ UNCHANGED <<out, bk>>
    /\ UNCHANGED offManager

\* Somebody deletes one (and the subdirectory this leaves empty).
RemoveFile(paths) ==
    /\ \E p \in paths :
        /\ tree[p] # Absent
        /\ tree' = [tree EXCEPT ![p] = Absent]
    /\ rs' = NoCall /\ cl' = NoCall /\ vf' = NoCall
    /\ UNCHANGED <<out, bk>>
    /\ UNCHANGED offManager

SaveTreasure == SaveFile(JsonPaths, {"dict+metadata"}, {Now})
RemoveTreasure == RemoveFile(JsonPaths)

InitManager == ArchiveIdle /\ CipherIdle /\ RestIdle

NextManager == SaveTreasure \/ RemoveTreasure \/ CreateBackup \/ RestoreBackup

SpecManager == InitManager /\ [][NextManager]_vars

\* clean_archives: archive_type if given, else every archive; a name that is
\* no archive selects nothing ("" stands for None: both are falsy).
ArchivesToClean(archive_type) ==
    IF archive_type = "" THEN ArchiveNames ELSE {archive_type} \cap ArchiveNames

\* Variant: <= in place of <.
IsOldOrEqual(file_time, cutoff_date) == file_time <= cutoff_date

\* clean_archives: file_time < cutoff_date
IsOld(file_time, cutoff_date) == file_time < cutoff_date

\* manager.clean_archives(older_than_days, archive_type, dry_run): the paths
\* listed for each archive cleaned, and the data root it leaves.
CleanResult(t, older_than_days, archive_type, dry_run) ==
    LET cutoff_date == Now - older_than_days
        removed == [a \in ArchivesToClean(archive_type) |->
                       {p \in FilesOf(t, a) : IsOld(t[p].mtime, cutoff_date)}]
        gone == UNION {removed[a] : a \in DOMAIN removed}
    IN  [removed |-> removed,
         tree |-> IF dry_run THEN t ELSE [p \in Paths |-> IF p \in gone THEN Absent ELSE t[p]]]

CleanArchives ==
    /\ \E older_than_days \in 0..MaxAge, archive_type \in ArchiveNames \cup {"", "other"},
          dry_run \in BOOLEAN :
        LET r == CleanResult(tree, older_than_days, archive_type, dry_run)
        IN  /\ tree' = r.tree
            /\ cl' = [st |-> "returned", older_than_days |-> older_than_days,
                      archive_type |-> archive_type, dry_run |-> dry_run,
                      removed |-> r.removed, pre |-> tree]
    /\ rs' = NoCall /\ vf' = NoCall
    /\ UNCHANGED <<out, bk>>
    /\ UNCHANGED offManager

SaveAged == SaveFile(JsonPaths, {"dict+metadata"}, 0..MaxAge)

NextClean == SaveAged \/ RemoveTreasure \/ CleanArchives

SpecClean == InitManager /\ [][NextClean]_vars

\* What a .json file holds: a mapping with or without a "metadata" entry,
\* another JSON value (a list, a string, a number), text that is not JSON,
\* or bytes that are not UTF-8.
JsonKinds == {"dict+metadata", "dict", "list", "string", "number", "invalid", "undecodable"}

\* json.load(f) on a file opened with encoding='utf-8'
JsonLoad(kind) ==
    CASE kind = "invalid" -> "JSONDecodeError"
      [] kind = "undecodable" -> "UnicodeDecodeError"
      [] OTHER -> "loaded"

\* 'metadata' not in data: a key test on a mapping, a membership test on a
\* list, a substring test on a string, a TypeError on a number.
MetadataNotIn(kind) ==
    CASE kind = "dict+metadata" -> "False"
      [] kind = "number" -> "TypeError"
      [] OTHER -> "True"

\* data['metadata'] = {...}: only a mapping takes the entry.
SetMetadata(kind) == IF kind = "dict" THEN "dict+metadata" ELSE "TypeError"

\* The order of self.archives.items()
ArchiveOrder == <<"treasures", "shadows", "silences", "voids">>
ArchiveIndex(a) == CHOOSE i \in 1..Len(ArchiveOrder) : ArchiveOrder[i] = a

\* The orders in which verify_archives may meet the files: archive after
\* archive, and within an archive in the order rglob gives, which is any.
VisitOrders(t) ==
    {o \in [1..Cardinality(AllFiles(t)) -> AllFiles(t)] :
        /\ \A i, j \in DOMAIN o : i # j => o[i] # o[j]
        /\ \A i, j \in DOMAIN o : i < j => ArchiveIndex(o[i].arch) <= ArchiveIndex(o[j].arch)}

\* The sibling of a path with another last suffix.
Sibling(p, parts) == PathOf(p.arch, p.dir, WithSuffix(p.name, parts))

Exists(t, p) == p \in Paths /\ t[p] # Absent

\* verify_archives: file_path.with_suffix('.encrypted') does not exist
IsOrphaned(t, p) == ~Exists(t, Sibling(p, <<"encrypted">>))

\* verify_archives: the body of the loop for one file; r holds the report so
\* far, the data root and the exception raised, if any.
VerifyFile(r, p, fix) ==
    LET f == r.tree[p]
        counted == [r EXCEPT !.total_files = @ + 1]
        missing == [counted EXCEPT !.missing_metadata = @ \cup {p}]
    IN  IF Suffix(p.name) = "json" THEN
            IF JsonLoad(f.kind) = "JSONDecodeError"
                THEN [counted EXCEPT !.corrupted_files = @ \cup {p}]
            ELSE IF JsonLoad(f.kind) # "loaded"
                THEN [counted EXCEPT !.st = JsonLoad(f.kind)]
            ELSE IF MetadataNotIn(f.kind) = "TypeError"
                THEN [counted EXCEPT !.st = "TypeError"]
            ELSE IF MetadataNotIn(f.kind) = "False"
                THEN counted
            ELSE IF ~fix
                THEN missing
            ELSE IF SetMetadata(f.kind) = "TypeError"
                THEN [missing EXCEPT !.st = "TypeError"]
            ELSE [missing EXCEPT !.tree[p] = File(SetMetadata(f.kind), f.v, Now),
                                 !.fixed_issues = @ \cup {p}]
        ELSE IF Suffix(p.name) = "key" /\ IsOrphaned(r.tree, p) THEN
            [counted EXCEPT !.orphaned_keys = @ \cup {p},
                            !.tree[p] = IF fix THEN Absent ELSE @,
                            !.fixed_issues = IF fix THEN @ \cup {p} ELSE @]
        ELSE counted

RECURSIVE VerifyFrom(_, _, _, _)
VerifyFrom(r, order, i, fix) ==
    IF i > Len(order) \/ r.st # "returned" THEN r
    ELSE VerifyFrom(VerifyFile(r, order[i], fix), order, i + 1, fix)

\* manager.verify_archives(fix)
VerifyArchives ==
    /\ \E fix \in BOOLEAN, order \in VisitOrders(tree) :
        LET r == VerifyFrom([st |-> "returned", total_files |-> 0, corrupted_files |-> {},
                             missing_metadata |-> {}, orphaned_keys |-> {},
                             fixed_issues |-> {}, tree |-> tree],
                            order, 1, fix)
        IN  /\ tree' = r.tree
            /\ vf' = [st |-> r.st, fix |-> fix, total_files |-> r.total_files,
                      corrupted_files |-> r.corrupted_files,
                      missing_metadata |-> r.missing_metadata,
                      orphaned_keys |-> r.orphaned_keys, fixed_issues |-> r.fixed_issues,
                      pre |-> tree,
                      afterFix |-> (vf.st = "returned" /\ vf.fix)]
    /\ rs' = NoCall /\ cl' = NoCall
    /\ UNCHANGED <<out, bk>>
    /\ UNCHANGED offManager

SaveJson == SaveFile(JsonPaths, JsonKinds, {Now})
SaveKey ==
    \/ SaveFile({p \in KeyPaths : Suffix(p.name) = "key"}, {"text"}, {Now})
    \/ SaveFile({p \in KeyPaths : Suffix(p.name) = "encrypted"}, {"blob"}, {Now})
RemoveAny == RemoveFile(Paths)

NextVerify == SaveJson \/ SaveKey \/ RemoveAny \/ VerifyArchives

SpecVerify == InitManager /\ [][NextVerify]_vars

----------------------------------------------------------------------------
(* ArchiveManager.list_archives *)

MaxListed == 2      \* files in the data root when it is listed

\* _determine_file_type: the type the extension stands for.
FileType(name) ==
    CASE Suffix(name) = "json" -> "treasure"
      [] Suffix(name) = "encrypted" -> "encrypted_treasure"
      [] Suffix(name) = "key" -> "encryption_key"
      [] OTHER -> "unknown"

\* _get_file_info: metadata.get('type') of a .json file that is a mapping
\* with a metadata block (the content decides it), None otherwise.
TreasureType(name, f) ==
    IF Suffix(name) = "json" /\ f.kind = "dict+metadata"
    THEN (IF f.v = 1 THEN "insight" ELSE "unknown")
    ELSE "None"

\* stat.st_size: the length of the content.
Size(f) == f.v

\* filter_by: None, or a text; a text with a colon splits into field and
\* value, and the value of a size filter into an operator and a number.
NoFilter == [colon |-> FALSE, field |-> "None", value |-> "", op |-> "", n |-> 0]
TextFilter(field, value) == [colon |-> TRUE, field |-> field, value |-> value, op |-> "", n |-> 0]
SizeFilter(op, n) == [colon |-> TRUE, field |-> "size", value |-> "", op |-> op, n |-> n]
Filters ==
    {NoFilter,
     [colon |-> FALSE, field |-> "treasure", value |-> "", op |-> "", n |-> 0],
     TextFilter("type", "treasure"), TextFilter("type", "insight"),
     TextFilter("type", "encryption_key"), TextFilter("name", "a"),
     SizeFilter(">", 1), SizeFilter("<", 2), SizeFilter("=", 1)}
    \cup {[colon |-> TRUE, field |-> "date", value |-> "", op |-> "", n |-> d] : d \in {0, Now}}

\* _matches_filter(file_info, filter_by)
MatchesFilter(name, f, filter_by) ==
    IF ~filter_by.colon THEN FALSE
    ELSE CASE filter_by.field = "type" ->
                TreasureType(name, f) = filter_by.value \/ FileType(name) = filter_by.value
           [] filter_by.field = "date" -> f.mtime = filter_by.n
           [] filter_by.field = "size" ->
                CASE filter_by.op = ">" -> Size(f) > filter_by.n
                  [] filter_by.op = "<" -> Size(f) < filter_by.n
                  [] filter_by.op = "=" -> Size(f) = filter_by.n
                  [] OTHER -> FALSE
           [] OTHER -> FALSE

\* file_path.name.startswith('.')
StartsWithDot(name) == name[1] = ".hidden"

\* Variant: sorted without reverse=True.
InOrderAscending(earlier, later) == earlier <= later

\* sorted(files, key=modified_time, reverse=True): what may stand before what.
InOrder(earlier, later) == earlier >= later

\* _scan_archive(archive_path, filter_by): the files rglob('*') finds
\* anywhere under the directory, less the dot files and those the filter
\* rejects, sorted; files of equal time stay as rglob gave them, in any order.
ScanArchive(t, arch, filter_by) ==
    LET files == {p \in FilesOf(t, arch) :
                     /\ ~StartsWithDot(p.name)
                     /\ filter_by # NoFilter => MatchesFilter(p.name, t[p], filter_by)}
    IN  {o \in [1..Cardinality(files) -> files] :
            /\ \A i, j \in DOMAIN o : i # j => o[i] # o[j]
            /\ \A i, j \in DOMAIN o : i < j => InOrder(t[o[i]].mtime, t[o[j]].mtime)}

\* list_archives: [archive_type] or, for 'all', every archive; names that are
\* no archive are passed over.
ArchivesToList(archive_type) ==
    IF archive_type # "all" THEN {archive_type} \cap ArchiveNames ELSE ArchiveNames

\* manager.list_archives(archive_type, filter_by=filter_by)
ListArchives ==
    /\ ls = NoCall
    /\ \E archive_type \in {"all", "treasures", "shadows", "voids", "other"}, filter_by \in Filters :
        \E results \in [ArchivesToList(archive_type) -> UNION {ScanArchive(tree, a, filter_by) : a \in ArchiveNames}] :
            /\ \A a \in DOMAIN results : results[a] \in ScanArchive(tree, a, filter_by)
            /\ ls' = [st |-> "returned", archive_type |-> archive_type, filter_by |-> filter_by,
                      results |-> results, pre |-> tree]
    /\ UNCHANGED <<archiveVars, cipherVars, managerVars, writerVars, wrapperVars, readerVars>>

\* Files come and go in the data root before it is listed.
SaveListed ==
    /\ ls = NoCall
    /\ Cardinality(AllFiles(tree)) < MaxListed
    /\ \/ SaveFile(JsonPaths, {"dict+metadata"}, 0..MaxAge)
       \/ SaveFile(KeyPaths \cup HiddenPaths, {"text"}, 0..MaxAge)

RemoveListed == ls = NoCall /\ RemoveFile(Paths)

NextList == SaveListed \/ RemoveListed \/ ListArchives

SpecList == InitManager /\ [][NextList]_vars

----------------------------------------------------------------------------
(* An append in progress *)

\* The places in a frame of n bytes at which the file may be seen to end
\* while _write_record runs: inside the length, inside the digest, between
\* the header and the payload, inside the payload, and after the frame.
StopPoints(n) == {2, 20, HEADER_SIZE, HEADER_SIZE + 1, n}

\* archive.append(observations) by writer w opens the file "ab"; the writers
\* in idle have no append running.
BeginAppend(w, idle) ==
    /\ constructed
    /\ \A v \in idle : wrObjs[v] = <<>>
    /\ \E obs \in Batches(WritableInputs, MaxRecords - Len(appended)) :
        /\ obs # <<>>
        /\ wrObjs' = [wrObjs EXCEPT ![w] = obs]
        /\ appended' = appended \o obs
    /\ overlapped' = (overlapped \/ \E v \in Writers \ {w} : wrObjs[v] # <<>>)
    /\ fileExists' = TRUE
    /\ UNCHANGED <<fileBytes, constructed, appendErr, rdState, rdPos, rdOut, rdFrom, written,
                   raced, initExists, initBytes, dmgKind, dmgFrame, dmgOffset, dmgStale, wrOff, ctorAt>>
    /\ UNCHANGED <<cipherVars, managerVars, wrapperVars, readerVars, listVars>>

\* The ends of the two writes of _write_record: the header, the payload.
WriteCalls(n) == {HEADER_SIZE, n}

\* More bytes of the frame writer w is writing reach the file, up to one of
\* the places stops names; with the last of them the record is written, and
\* with the last record append returns.
WriteUpTo(w, stops) ==
    /\ wrObjs[w] # <<>>
    /\ LET frame == Frame(Head(wrObjs[w]))
       IN  \E stop \in stops :
            /\ stop > wrOff[w]
            /\ fileBytes' = fileBytes \o SubSeq(frame, wrOff[w] + 1, stop)
            /\ IF stop = Len(frame)
               THEN /\ wrObjs' = [wrObjs EXCEPT ![w] = Tail(@)]
                    /\ wrOff' = [wrOff EXCEPT ![w] = 0]
                    /\ written' = written \o <<Head(wrObjs[w])>>
               ELSE /\ wrOff' = [wrOff EXCEPT ![w] = stop]
                    /\ UNCHANGED <<wrObjs, written>>
    /\ raced' = (raced \/ rdState # "none")
    /\ UNCHANGED <<fileExists, constructed, appendErr, rdState, rdPos, rdOut, rdFrom, appended,
                   initExists, initBytes, dmgKind, dmgFrame, dmgOffset, dmgStale,
                   overlapped, ctorAt>>
    /\ UNCHANGED <<cipherVars, managerVars, wrapperVars, readerVars, listVars>>

\* The file grows by any part of the frame (a buffer flushed where it fills).
WriteSome(w) == wrObjs[w] # <<>> /\ WriteUpTo(w, StopPoints(Len(Frame(Head(wrObjs[w])))))

\* The file grows by one fh.write of _write_record.
WriteCall(w) == wrObjs[w] # <<>> /\ WriteUpTo(w, WriteCalls(Len(Frame(Head(wrObjs[w])))))

\* One appender, and readers beside it.
NextRace ==
    \/ Construct
    \/ BeginAppend(1, Writers)
    \/ WriteSome(1)
    \/ IterRecords
    \/ ReaderNext

SpecRace == InitTamper /\ [][NextRace]_vars

\* No append is running.
WritersIdle == \A w \in Writers : wrObjs[w] = <<>>

\* archive.iter_records() called when the appenders have finished.
IterAfterAppends == WritersIdle /\ IterRecords

\* Two appenders that nothing serializes: each may begin an append while the
\* other's is running, and every write lands at the end of the file. The
\* file is read when they have finished.
NextAppenders ==
    \/ Construct
    \/ BeginAppend(1, {1})
    \/ BeginAppend(2, {2})
    \/ WriteCall(1)
    \/ WriteCall(2)
    \/ IterAfterAppends
    \/ ReaderNext

SpecAppenders == InitTamper /\ [][NextAppenders]_vars

----------------------------------------------------------------------------
(* Two processes opening the same path *)

\* Archive.__init__ of process p up to the test: path.exists().
CheckExists(p) ==
    /\ ctorAt[p] = "none"
    /\ ctorAt' = [ctorAt EXCEPT ![p] = IF InitFileNeeded(fileExists) THEN "init" ELSE "done"]
    /\ constructed' = (constructed \/ ~InitFileNeeded(fileExists))
    /\ UNCHANGED <<fileExists, fileBytes, appendErr, rdState, rdPos, rdOut, rdFrom, appended,
                   written, raced, initExists, initBytes, dmgKind, dmgFrame, dmgOffset, dmgStale,
                   wrObjs, wrOff, overlapped>>
    /\ UNCHANGED <<cipherVars, managerVars, wrapperVars, readerVars, listVars>>

\* Archive._init_file of process p, after its test found no file: open "wb"
\* creates the file or cuts it to length 0; then the magic is written.
InitFile(p) ==
    /\ ctorAt[p] = "init"
    /\ ctorAt' = [ctorAt EXCEPT ![p] = "done"]
    /\ fileExists' = TRUE
    /\ fileBytes' = InitFileBytes
    /\ constructed' = TRUE
    /\ raced' = (raced \/ (rdState # "none" /\ fileBytes' # fileBytes))
    /\ UNCHANGED <<appendErr, rdState, rdPos, rdOut, rdFrom, appended, written,
                   initExists, initBytes, dmgKind, dmgFrame, dmgOffset, dmgStale,
                   wrObjs, wrOff, overlapped>>
    /\ UNCHANGED <<cipherVars, managerVars, wrapperVars, readerVars, listVars>>

\* archive.append(observations) by process p, on the Archive it has constructed.
AppendBy(p) == ctorAt[p] = "done" /\ AppendFrom(WritableInputs)

\* Process 1 constructs an Archive; process 2 constructs one on the same
\* path and appends; passes of iter_records beside them.
NextOpen ==
    \/ CheckExists(1)
    \/ InitFile(1)
    \/ CheckExists(2)
    \/ InitFile(2)
    \/ AppendBy(2)
    \/ IterRecords
    \/ ReaderNext

SpecOpen == InitTamper /\ [][NextOpen]_vars

----------------------------------------------------------------------------
(* Several passes of iter_records over one file *)

\* Variant: one handle kept on the Archive object and used by every pass.
HandleOffsetShared(r) ==
    CHOOSE m \in {rdr[q].pos : q \in Readers} : \A q \in Readers : rdr[q].pos <= m

\* iter_records: `with self.path.open("rb") as fh`, a handle of the call.
HandleOffset(r) == rdr[r].pos

\* archive.iter_records() by reader r.
IterRecordsBy(r) ==
    /\ constructed
    /\ rdr' = [rdr EXCEPT ![r] = [st |-> "created", pos |-> 0, out |-> <<>>, of |-> written]]
    /\ UNCHANGED <<archiveVars, cipherVars, managerVars, writerVars, wrapperVars, listVars>>

\* next() on the generator of reader r.
NextBy(r) ==
    /\ rdr[r].st \in RdLive
    /\ LET res == IF rdr[r].st = "created" THEN ReadFirst(fileExists, fileBytes)
                  ELSE ReadFrame(fileBytes, HandleOffset(r))
       IN  rdr' = [rdr EXCEPT ![r] = [st |-> res.st, pos |-> res.pos,
                                      out |-> rdr[r].out \o res.out, of |-> rdr[r].of]]
    /\ UNCHANGED <<archiveVars, cipherVars, managerVars, writerVars, wrapperVars, listVars>>

\* archive.append(observations) while no pass is under way.
AppendBetweenPasses ==
    /\ \A r \in Readers : rdr[r].st \notin RdLive
    /\ AppendFrom(WritableInputs)

NextReaders ==
    \/ Construct
    \/ AppendBetweenPasses
    \/ IterRecordsBy(1)
    \/ IterRecordsBy(2)
    \/ NextBy(1)
    \/ NextBy(2)

SpecReaders == InitTamper /\ [][NextReaders]_vars

----------------------------------------------------------------------------
(* The archive file deleted from outside *)

\* Somebody removes the file; the Archive objects constructed before remain.
DeleteFile ==
    /\ fileExists
    /\ fileExists' = FALSE
    /\ fileBytes' = <<>>
    /\ written' = <<>>
    /\ raced' = (raced \/ rdState # "none")
    /\ UNCHANGED <<constructed, appendErr, rdState, rdPos, rdOut, rdFrom, appended,
                   initExists, initBytes, dmgKind, dmgFrame, dmgOffset, dmgStale>>
    /\ UNCHANGED offArchive

NextDelete ==
    \/ Construct
    \/ AppendWritable
    \/ DeleteFile
    \/ IterRecords
    \/ ReaderNext

SpecDelete == InitTamper /\ [][NextDelete]_vars

----------------------------------------------------------------------------
(* Properties *)

\* The objects of the archive a behaviour began with.
InitRecords ==
    IF initExists /\ MagicOk(initBytes) /\ Len(initBytes) > Len(FILE_MAGIC)
    THEN <<PreExisting>> ELSE <<>>

\* The part of an object that JSON carries exactly.
Key(o) == <<o.name, o.data, o.meta>>
Keys(objs) == [i \in 1..Len(objs) |-> Key(objs[i])]

\* A complete, undisturbed pass of iter_records over an archive of this code.
CleanPass == rdState \in RdFinished /\ ~raced /\ (initExists => MagicOk(initBytes))

\* C1: after any appends by serialized writers, a pass of iter_records yields
\* exactly the objects passed to append, each once, in input and call order.
C1_AppendedInOrder ==
    (CleanPass /\ dmgKind = "none")
        => (rdState = "done" /\ Keys(rdOut) = Keys(InitRecords \o appended))

\* C2: every record read back equals the record that was written, field for
\* field (name, timestamp with its type, data, meta).
C2_RoundTrip ==
    \A i \in (Len(InitRecords) + 1)..Len(rdOut) :
        i <= Len(written) => Fields(rdOut[i]) = Fields(written[i])

\* C3: with one payload byte of frame k changed, iter_records yields the k-1
\* records before it unchanged, then raises the checksum IOError at frame k,
\* and has yielded nothing more when it ends.
C3_TamperDetected ==
    (dmgKind = "tamper" /\ rdState # "none" /\ ~raced) =>
        /\ Len(rdOut) <= dmgFrame - 1
        /\ \A i \in 1..Len(rdOut) : rdOut[i] = ReadBack(written[i])
        /\ rdState \in RdFinished
            => (rdState = "IOError:checksum" /\ Len(rdOut) = dmgFrame - 1)

C3_Witness ==
    /\ dmgKind = "tamper" /\ dmgFrame = 2 /\ ~raced
    /\ rdState = "IOError:checksum" /\ Len(rdOut) = 1

\* C4: with the file cut strictly inside frame k, iter_records yields the k-1
\* complete frames and then raises the corruption error (the IOError of a
\* checksum mismatch), never ending cleanly.
C4_TruncationDetected ==
    (dmgKind = "trunc" /\ dmgFrame > 0 /\ ~dmgStale /\ rdState \in RdFinished /\ ~raced)
        => (rdState = "IOError:checksum" /\ Len(rdOut) = dmgFrame - 1)

\* C5: constructing an Archive on an absent path leaves a file holding exactly
\* the magic, on which iter_records yields nothing and returns; and a pass
\* returns exactly when it finds zero bytes left at a frame boundary.
C5_EmptyArchive ==
    /\ (~initExists /\ constructed /\ written = <<>> /\ dmgKind = "none")
        => (fileExists /\ fileBytes = FILE_MAGIC)
    /\ (~initExists /\ written = <<>> /\ dmgKind = "none" /\ rdState \in RdFinished)
        => (rdState = "done" /\ rdOut = <<>>)
    /\ (rdState \in RdFinished /\ ~raced)
        => (rdState = "done" <=> (MagicOk(fileBytes) /\ rdFrom = Len(fileBytes)))
    /\ (rdState \in RdFinished /\ ~raced /\ dmgKind = "trunc" /\ ~dmgStale)
        => (rdState = "done" <=> dmgFrame = 0)

C5_Witness ==
    /\ ~initExists /\ constructed /\ appended = <<>> /\ dmgKind = "none"
    /\ rdState = "done" /\ rdOut = <<>> /\ fileBytes = FILE_MAGIC

\* The number of places at which the magic occurs in a file.
MagicCount(bytes) ==
    Cardinality({p \in 0..(Len(bytes) - Len(FILE_MAGIC)) :
                    SubSeq(bytes, p + 1, p + Len(FILE_MAGIC)) = FILE_MAGIC})

\* C6: constructing an Archive on an existing valid archive and appending to
\* it leaves every byte that was there in place and the magic exactly once in
\* the file, at offset 0.
C6_HeaderOnce ==
    (initExists /\ MagicOk(initBytes)) =>
        /\ fileExists
        /\ IsPrefix(initBytes, fileBytes)
        /\ MagicCount(fileBytes) = 1

C6_Witness ==
    /\ initExists /\ Len(initBytes) > Len(FILE_MAGIC) /\ constructed
    /\ Len(written) = 3 /\ appendErr = "none"

\* C7: on a file that does not begin with the magic, iter_records raises the
\* bad-magic IOError before yielding anything, while the constructor and
\* append raise nothing.
C7_InvalidHeader ==
    (initExists /\ ~MagicOk(initBytes)) =>
        /\ appendErr = "none"
        /\ rdOut = <<>>
        /\ rdState \in RdFinished => rdState = "IOError:magic"

\* C8: for every buffer and every password string P, an instance built with P
\* decrypts what an instance built with P encrypted, back to the buffer.
C8_RoundTrip ==
    (decState # "none" /\ decTamper = "none"
        /\ cipherPw[blobBy] \in Passwords /\ cipherPw[decBy] = cipherPw[blobBy])
        => (decState = "returned" /\ decOut = blobPlain)

\* C9: decrypt under a key other than the encrypting one, or of a blob with
\* a changed tag byte, raises; and whatever decrypt returns is the plaintext
\* that was encrypted.
C9_FailClosed ==
    decState # "none" =>
        /\ (cipherKey[decBy] # cipherKey[blobBy] \/ decTamper = "tag")
            => decState = "ValueError"
        /\ decState = "returned" => decOut = blobPlain

C9_Witness ==
    /\ decState = "ValueError" /\ decTamper = "tag"
    /\ cipherKey[decBy] = cipherKey[blobBy]

\* C10: instances built with the same password string hold the same key, and
\* instances built with different password strings hold different keys.
C10_KeyDeterminism ==
    \A c, d \in CipherIds :
        (cipherPw[c] \in Passwords /\ cipherPw[d] \in Passwords)
            => (cipherPw[c] = cipherPw[d] <=> cipherKey[c] = cipherKey[d])

\* C11: restore_backup of a backup with force=False, while some archive
\* directory holds data, reports the conflict (it returns False) and leaves
\* the data root and the output directory as they were: no archive file is
\* created, changed or deleted and no decrypted temporary file is written.
C11_RestoreSafety ==
    (rs.st # "none" /\ ~rs.force /\ NonEmptyArchives(rs.pre) # {}
        /\ rs.preOut[rs.path] # NoArtifact)
        => (rs.st = "False" /\ tree = rs.pre /\ out = rs.preOut)

C11_Witness ==
    /\ rs.st = "False" /\ ~rs.force /\ rs.password = bk.password
    /\ Suffix(rs.path) = "encrypted" /\ bk.snapshot # tree
    /\ tree = rs.pre /\ out = rs.preOut

\* What the files of a tree hold, modification times aside.
Contents(t) == [p \in Paths |-> [kind |-> t[p].kind, v |-> t[p].v]]

\* C12: restore_backup with force=True of an unencrypted backup (a directory
\* or a compressed one), whatever was added, changed or deleted since, leaves
\* in every archive directory exactly the files, with the contents, that were
\* there when create_backup took the backup.
C12_RoundTrip ==
    (rs.st # "none" /\ rs.force /\ bk.st = "returned" /\ ~bk.encrypt /\ rs.path = bk.path)
        => (rs.st = "True" /\ Contents(tree) = Contents(bk.snapshot))

\* C13: restore_backup(path, password=P) of a backup made with encrypt=True
\* and password P (compressed or not), onto empty archive directories,
\* whenever it returns True, has put every archive file of backup time back
\* under the data root with its content: it never returns True having
\* restored nothing.
C13_EncryptedRestore ==
    (rs.st = "True" /\ bk.st = "returned" /\ bk.encrypt /\ Truthy(bk.password)
        /\ rs.path = bk.path /\ rs.password = bk.password /\ AllFiles(rs.pre) = {})
        => \A p \in AllFiles(bk.snapshot) : Contents(tree)[p] = Contents(bk.snapshot)[p]

\* C14: after create_backup with encrypt=True and no password (compressed or
\* not), a .key file with the base name of the encrypted artifact holds the
\* generated password, and restore_backup with no password finds that file,
\* derives from it the key the blob was encrypted with, and decrypts without
\* an authentication error.
C14_SidecarKey ==
    (rs.st # "none" /\ bk.st = "returned" /\ bk.encrypt /\ ~Truthy(bk.password)
        /\ rs.path = bk.path /\ ~Truthy(rs.password) /\ Conflicts(rs.pre, rs.force) = {})
        => /\ rs.preOut[WithSuffix(rs.path, <<"key">>)] = TextArtifact(AutoPassword)
           /\ DeriveKeyFromPassword(AutoPassword) = bk.key
           /\ rs.st \notin {"ValueError:password", "AuthenticationError"}

\* The files of the selected archives that are older than the cutoff.
Expired(t, days, archive_type) ==
    {p \in AllFiles(t) :
        /\ archive_type \in {"", p.arch}
        /\ Now - t[p].mtime > days}

\* C15: clean_archives(older_than_days=N) deletes exactly the files of the
\* selected archive directories modified more than N days ago, keeps every
\* other file and returns the deleted paths; with dry_run=True it returns the
\* same paths and deletes nothing.
C15_RetentionClean ==
    cl.st = "returned" =>
        LET old == Expired(cl.pre, cl.older_than_days, cl.archive_type)
        IN  /\ UNION {cl.removed[a] : a \in DOMAIN cl.removed} = old
            /\ \A a \in DOMAIN cl.removed : \A p \in cl.removed[a] : p.arch = a
            /\ \A p \in Paths :
                tree[p] = IF p \in old /\ ~cl.dry_run THEN Absent ELSE cl.pre[p]

C15_Witness ==
    /\ cl.st = "returned" /\ ~cl.dry_run /\ cl.older_than_days = 1 /\ cl.archive_type = ""
    /\ \E p, q \in AllFiles(cl.pre) :
        /\ cl.pre[p].mtime = Now - 2 /\ tree[p] = Absent /\ p \in cl.removed[p.arch]
        /\ cl.pre[q].mtime = Now - 1 /\ tree[q] = cl.pre[q]

JsonFiles(t) == {p \in AllFiles(t) : Suffix(p.name) = "json"}
ParseFails(kind) == kind \in {"invalid", "undecodable"}
HasMetadata(kind) == kind = "dict+metadata"
OrphanedKeys(t) ==
    {p \in AllFiles(t) : Suffix(p.name) = "key" /\ ~Exists(t, Sibling(p, <<"encrypted">>))}

\* C16: verify_archives reports every .json file that fails to parse as
\* corrupted, every .json file that parses but has no metadata block as
\* missing_metadata and every .key file without its .encrypted file as an
\* orphaned key; with fix=False it changes no file; with fix=True every
\* missing-metadata file has a metadata block afterwards and every orphaned
\* key is gone, and a verify that follows reports neither.
C16_VerifyRepair ==
    vf.st # "none" =>
        /\ vf.st = "returned"
        /\ vf.corrupted_files = {p \in JsonFiles(vf.pre) : ParseFails(vf.pre[p].kind)}
        /\ vf.missing_metadata =
              {p \in JsonFiles(vf.pre) :
                  ~ParseFails(vf.pre[p].kind) /\ ~HasMetadata(vf.pre[p].kind)}
        /\ vf.orphaned_keys = OrphanedKeys(vf.pre)
        /\ ~vf.fix => tree = vf.pre
        /\ vf.fix =>
              /\ \A p \in vf.missing_metadata : HasMetadata(tree[p].kind)
              /\ \A p \in vf.orphaned_keys : tree[p] = Absent
        /\ vf.afterFix => (vf.missing_metadata = {} /\ vf.orphaned_keys = {})

\* The offsets at which the frames of objs begin and end.
Boundaries(objs) == {FrameStart(objs, k) : k \in 1..(Len(objs) + 1)}

\* C17: a pass of iter_records beside an append that has written part of a
\* frame yields a prefix of the completely written records, yields no record
\* that was not appended, and ends either by returning at a frame boundary or
\* with the corruption error (the checksum IOError); it never returns inside
\* a partial frame.
C17_RacingReader ==
    rdState # "none" =>
        /\ IsPrefix(rdOut, [i \in 1..Len(written) |-> ReadBack(written[i])])
        /\ rdState \in RdFinished => rdState \in {"done", "IOError:checksum"}
        /\ rdState = "done" => rdFrom \in Boundaries(written \o wrObjs[1])

\* C18: decrypt of a blob shorter than 28 bytes (12 of nonce, 16 of tag)
\* raises and returns no plaintext; decrypt of a blob of exactly 28 bytes with
\* a valid tag returns the empty buffer.
C18_MalformedBlob ==
    (decState # "none" /\ decTamper = blobTamper) =>
        /\ Len(blob) < 28 => (decState = "ValueError" /\ decOut = <<>>)
        /\ (Len(blob) = 28 /\ blobTamper = "none" /\ cipherKey[decBy] = cipherKey[blobBy])
              => (decState = "returned" /\ decOut = <<>> /\ blobPlain = <<>>)

C18_Witness ==
    /\ decState = "ValueError" /\ decTamper = "cut" /\ blobTamper = "cut"
    /\ Len(blob) = 27 /\ cipherKey[decBy] = cipherKey[blobBy]

\* decrypt_file was given a file that was altered after encrypt_file made
\* it, or one made under another key than the instance holds.
BadSource ==
    /\ fc.op = "decrypt_file"
    /\ \/ fc.pre[fc.src].state = "tampered"
       \/ fc.pre[fc.src].state = "sealed" /\ fc.pre[fc.src].key # cipherKey[fc.by]

\* C19 as stated: decrypt_file of a tampered file, or under the wrong key,
\* raises and creates or overwrites no file; encrypt_file never changes its
\* source file and by default writes to the source path with the encrypted
\* suffix added.
C19_AsStated ==
    fc.st # "none" =>
        /\ BadSource => (fc.st = "ValueError" /\ disk = fc.pre)
        /\ fc.op = "encrypt_file" =>
              /\ disk[fc.src] = fc.pre[fc.src]
              /\ fc.dst = None => fc.path = fc.src \o <<"encrypted">>

\* C19, amended: decrypt_file of a tampered file, or under the wrong key,
\* raises and creates or overwrites no file; encrypt_file changes no file but
\* its destination, so never its source unless the caller names the source
\* as the destination, and by default the destination is the source path
\* with the encrypted suffix added.
C19_FileWrapper ==
    fc.st # "none" =>
        /\ BadSource => (fc.st = "ValueError" /\ disk = fc.pre)
        /\ fc.op = "encrypt_file" =>
              /\ \A n \in DiskNames \ {fc.path} : disk[n] = fc.pre[n]
              /\ fc.dst # fc.src => disk[fc.src] = fc.pre[fc.src]
              /\ fc.dst = None => fc.path = fc.src \o <<"encrypted">>
              /\ fc.st = "returned" =>
                    DecryptWith(cipherKey[fc.by], disk[fc.path].bytes).out = fc.pre[fc.src].bytes

C19_Witness ==
    /\ fc.st = "ValueError" /\ fc.op = "decrypt_file"
    /\ fc.pre[fc.src].state = "sealed" /\ fc.pre[fc.src].key # cipherKey[fc.by]
    /\ fc.path # fc.src /\ fc.pre[fc.path] # NoFile /\ disk = fc.pre

\* A file read as frames from offset pos on: each a 4-byte big-endian length
\* N, 32 bytes that are the SHA-256 of the payload, and N bytes of payload,
\* one after the other up to the end of the file.
RECURSIVE ParseFrames(_, _)
ParseFrames(bytes, pos) ==
    IF pos = Len(bytes) THEN [ok |-> TRUE, payloads |-> <<>>]
    ELSE IF Len(bytes) - pos < 36 THEN [ok |-> FALSE, payloads |-> <<>>]
    ELSE LET n == UnpackU32(SubSeq(bytes, pos + 1, pos + 4))
             digest == SubSeq(bytes, pos + 5, pos + 36)
         IN  IF n > Len(bytes) - pos - 36 THEN [ok |-> FALSE, payloads |-> <<>>]
             ELSE LET payload == SubSeq(bytes, pos + 37, pos + 36 + n)
                      rest == ParseFrames(bytes, pos + 36 + n)
                  IN  [ok |-> rest.ok /\ Sha256(payload) = digest,
                       payloads |-> <<payload>> \o rest.payloads]

RECURSIVE FramesOk(_, _)
FramesOk(bytes, pos) ==
    \/ pos = Len(bytes)
    \/ /\ Len(bytes) - pos >= 36
       /\ LET n == UnpackU32(SubSeq(bytes, pos + 1, pos + 4))
          IN  /\ n <= Len(bytes) - pos - 36
              /\ Sha256(SubSeq(bytes, pos + 37, pos + 36 + n)) = SubSeq(bytes, pos + 5, pos + 36)
              /\ FramesOk(bytes, pos + 36 + n)

\* The state of the archive file: Absent, HeaderOnly (the magic and nothing
\* else), Populated (the magic and one well-formed frame or more).
StateOf(exists, bytes) ==
    IF ~exists THEN "Absent"
    ELSE IF bytes = <<79, 78, 69, 80, 65, 73, 48>> THEN "HeaderOnly"
    ELSE IF /\ Len(bytes) > 7
            /\ SubSeq(bytes, 1, 7) = <<79, 78, 69, 80, 65, 73, 48>>
            /\ FramesOk(bytes, 7)
         THEN "Populated"
    ELSE "Other"

FileState == StateOf(fileExists, fileBytes)

\* One step of the file: it stays as it is, or a constructor call takes it
\* from Absent to HeaderOnly, or an append that writes a record takes it from
\* HeaderOnly or Populated to Populated; its length does not decrease.
FileStep ==
    /\ Len(fileBytes') >= Len(fileBytes)
    /\ \/ fileExists' = fileExists /\ fileBytes' = fileBytes
       \/ /\ ~fileExists /\ FileState' = "HeaderOnly"
          /\ constructed' /\ appended' = appended
       \/ /\ fileExists /\ FileState' = "Populated"
          /\ Len(written') > Len(written) /\ Len(appended') > Len(appended)

\* C21: under any constructions, appends and passes of iter_records over a
\* path that was absent or held an archive, the file is always Absent,
\* HeaderOnly or Populated; it moves only from Absent to HeaderOnly, on
\* construction, and from HeaderOnly or Populated to Populated, on an append
\* of at least one record; it never goes back and never gets shorter.
C21_MonotonicFile ==
    [][(initExists => MagicOk(initBytes))
        => (FileState \in {"Absent", "HeaderOnly", "Populated"} /\ FileStep)]_vars

C21_Witness ==
    /\ ~initExists /\ FileState = "Populated" /\ Len(written) = 1
    /\ rdState = "done" /\ ~raced /\ Len(rdOut) = 1

\* C22: however a constructor call of one process (its exists() test, then
\* its _init_file) interleaves with another process that constructs an
\* Archive on the same path and appends, the file is never cut or
\* rewritten: every record whose append has completed is in the file, and a
\* later pass of iter_records yields it.
C22_NeverTruncated ==
    (constructed /\ (initExists => MagicOk(initBytes))) =>
        /\ fileExists /\ MagicOk(fileBytes)
        /\ ParseFrames(fileBytes, 7).payloads = [i \in 1..Len(written) |-> JsonDumps(written[i])]
        /\ (rdState = "done" /\ ~raced) => Keys(rdOut) = Keys(written)

\* A pass of iter_records over the file as the appenders left it has ended.
PassAfterAppends == WritersIdle /\ rdState \in RdFinished /\ ~raced

\* C23: two appenders that write to the same file without serialization can
\* leave a file on which iter_records raises a header or checksum error;
\* when no append begins while another is running, the file the appenders
\* leave is the magic followed by whole frames and a pass over it ends
\* without an error, having yielded every record.
C23_Appenders ==
    (~overlapped /\ WritersIdle) =>
        /\ fileExists => (MagicOk(fileBytes) /\ FramesOk(fileBytes, 7))
        /\ PassAfterAppends => (rdState = "done" /\ Keys(rdOut) = Keys(written))

\* The corrupt file of two overlapping appends, and the reader's error on it.
C23_Witness ==
    /\ overlapped /\ PassAfterAppends /\ Len(written) = 2
    /\ rdState \in {"struct.error", "IOError:checksum"}
    /\ ~FramesOk(fileBytes, 7)

\* C24: every append leaves the bytes already in the file as they are: the
\* old content is a prefix of the new one, so the frame of a record, payload
\* and checksum, stays the same through every later append and read.
C24_AppendOnly == [][IsPrefix(fileBytes, fileBytes')]_vars

C24_Witness ==
    /\ initExists /\ Len(initBytes) > 7 /\ Len(written) = 2 /\ appended # <<>>
    /\ IsPrefix(initBytes, fileBytes) /\ fileBytes # initBytes
    /\ rdState = "done" /\ ~raced

\* The records a pass over a file holding objs yields.
ReadBackAll(objs) == [i \in 1..Len(objs) |-> ReadBack(objs[i])]

\* C25: iter_records does not modify the file, and passes over the same file,
\* one after another or interleaved step by step while no append runs, each
\* yield the whole record sequence from the first record on: what a pass
\* has yielded is a prefix of the file's records, and a pass ends only by
\* returning, with all of them.
C25_IndependentReaders ==
    \A r \in Readers :
        /\ rdr[r].st \in RdLive => fileBytes = ArchiveBytes(rdr[r].of)
        /\ rdr[r].st # "none" => IsPrefix(rdr[r].out, ReadBackAll(rdr[r].of))
        /\ rdr[r].st \notin RdLive \cup {"none"}
            => (rdr[r].st = "done" /\ rdr[r].out = ReadBackAll(rdr[r].of))

\* Two interleaved passes over a file of two records: one has ended, the
\* other, begun before the first ended, is half way.
C25_Witness ==
    /\ rdr[1].st = "done" /\ Len(rdr[1].out) = 2
    /\ rdr[2].st = "suspended" /\ Len(rdr[2].out) = 1
    /\ rdr[1].of = rdr[2].of

\* C26: after any constructions, appends and external deletions of the file,
\* an append through an Archive constructed before a deletion included, the
\* file begins with the 7-byte magic whenever it exists, and iter_records
\* never raises the bad-magic IOError on it.
C26_HeaderAfterDeletion ==
    (fileExists => MagicOk(fileBytes)) /\ rdState # "IOError:magic"

\* The files of the output directory that hold text (the sidecar key files).
KeyFiles == {n \in ArtifactNames : out[n].kind = "text"}

\* C27: create_backup with encrypt=True writes a plaintext sidecar key file
\* only when no password was supplied; a password the caller supplies is
\* never written to any file.
C27_NoPlaintextSecret ==
    (bk.st = "returned" /\ bk.encrypt /\ Truthy(bk.password)) =>
        /\ KeyFiles = {}
        /\ \A n \in ArtifactNames : out[n] # TextArtifact(bk.password)

\* The .json files verify_archives cannot take as a mapping: invalid JSON,
\* bytes that are not UTF-8, and JSON whose top level is not a mapping.
Unusable(kind) == kind \in {"invalid", "undecodable", "list", "string", "number"}

\* C28: for any files in the archive directories, with fix=False and with
\* fix=True, verify_archives does not abort on a .json file that is invalid
\* JSON, not a mapping at its top level or undecodable: it returns a report
\* in which each such file is recorded, and whose total is the number of
\* files present.
C28_VerifyRobust ==
    vf.st # "none" =>
        /\ vf.st = "returned"
        /\ vf.total_files = Cardinality(AllFiles(vf.pre))
        /\ \A p \in JsonFiles(vf.pre) :
              Unusable(vf.pre[p].kind) => p \in vf.corrupted_files \cup vf.missing_metadata

\* The files a listing names for archive a.
Listed(a) == {ls.results[a][i] : i \in DOMAIN ls.results[a]}

\* A file satisfies a field:value filter: type:T names its type (that of its
\* extension or of its metadata), date:D its day of modification, size:>N,
\* size:<N, size:=N bound its size; no file satisfies any other filter text.
Satisfies(p, f, filter_by) ==
    \/ filter_by = NoFilter
    \/ /\ filter_by.colon /\ filter_by.field = "type"
       /\ filter_by.value \in {FileType(p.name), TreasureType(p.name, f)}
    \/ filter_by.colon /\ filter_by.field = "date" /\ filter_by.n = f.mtime
    \/ /\ filter_by.colon /\ filter_by.field = "size"
       /\ \/ filter_by.op = ">" /\ f.v > filter_by.n
          \/ filter_by.op = "<" /\ f.v < filter_by.n
          \/ filter_by.op = "=" /\ f.v = filter_by.n

\* A listing names no file twice and runs from the latest modification time
\* to the earliest.
LatestFirst(a) ==
    \A i, j \in DOMAIN ls.results[a] :
        i < j => (ls.results[a][i] # ls.results[a][j]
                  /\ ls.pre[ls.results[a][i]].mtime >= ls.pre[ls.results[a][j]].mtime)

SelectedArchives ==
    IF ls.archive_type = "all" THEN ArchiveNames ELSE {ls.archive_type} \cap ArchiveNames

C30_BackupMetadata ==
    (bk.st = "returned" /\ ~bk.encrypt) =>
        /\ ~bk.compress =>
              /\ out[bk.path].kind = "dir"
              /\ out[bk.path].metadata.archives_included = ArchiveNames
              /\ out[bk.path].metadata.total_files = Cardinality(AllFiles(bk.snapshot))
        /\ bk.compress =>
              /\ out[bk.path].kind = "targz"
              /\ "metadata" \notin DOMAIN out[bk.path]

====
